---- MODULE Spec2Model ----
(***************************************************************************)
(* DARTS search network of examples/app/h_cv/NAS-pFed/darts/model_search.py *)
(* (MixedOp, Cell, InnerCell, ModelForModelSizeMeasure, Network, EMNIST).   *)
(*                                                                          *)
(* Tensors are modelled by their shape: a feature map is a record           *)
(* [ch, res] (channel count, number of spatial halvings); an architecture   *)
(* weight table is a function [0..k-1 -> [0..num_ops-1 -> Nat]] kept in a   *)
(* heap of tensor storages, so that sharing and copying are distinct.       *)
(* Python indices are kept 0-based; Python lists are TLA+ sequences, so     *)
(* list[x] is written seq[x + 1].                                           *)
(***************************************************************************)
EXTENDS Integers, Sequences, FiniteSets, TLC

\* ------------------------------------------------------------------ bounds
MaxC == 2
MaxLayers == 3
MaxSteps == 2
MaxMult == 3
MaxW == 1
MaxSeed == 1
MaxTrainedRows == 2

\* ------------------------------------------------- defaults of the source
DefaultSteps == 4
DefaultMultiplier == 4
DefaultStemMultiplier == 3
CnnThreshold == 4

\* darts.genotypes.PRIMITIVES: an ordered sequence of operation names that
\* holds "none"; darts.operations.OPS is keyed by the same names in the same
\* order (the registry's "ordered enumeration of valid names").
PRIMITIVES == <<"none", "skip_connect", "sep_conv_3x3">>

OPS_keys == PRIMITIVES

num_ops == Len(PRIMITIVES)

\* PRIMITIVES.index(name): 0-based position of the first occurrence.
PrimitivesIndex(name) ==
    (CHOOSE p \in 1..Len(PRIMITIVES) :
        /\ PRIMITIVES[p] = name
        /\ \A q \in 1..(p - 1) : PRIMITIVES[q] # name) - 1

\* ----------------------------------------------------------- Python helpers
\* range(a, b) as a list
Range(a, b) == [x \in 1..(IF b > a THEN b - a ELSE 0) |-> a + x - 1]

\* a slice that never reaches below list index 2
SliceLastFromTwo(len, m) ==
    LET lo == IF m <= 0 THEN 2 ELSE IF m >= len - 2 THEN 2 ELSE len - m
    IN  Range(lo, len)

\* the list indices selected by the slice lst[-m:] of a list of length len
SliceLastIndices(len, m) ==
    LET lo == IF m <= 0 THEN 0 ELSE IF m >= len THEN 0 ELSE len - m
    IN  Range(lo, len)

\* f itself, its values computed once (a function constructor is otherwise
\* evaluated anew at every application)
Materialize(f) == IF f = f THEN f ELSE f

RECURSIVE SumSeq(_)
SumSeq(s) == IF s = <<>> THEN 0 ELSE s[1] + SumSeq(Tail(s))

RECURSIVE Pow2(_)
Pow2(x) == IF x <= 0 THEN 1 ELSE 2 * Pow2(x - 1)

\* ------------------------------------------------ architecture weight tables
\* k = sum(1 for i in range(steps) for n in range(2 + i))
RECURSIVE NumRows(_)
NumRows(steps) == IF steps <= 0 THEN 0 ELSE NumRows(steps - 1) + (2 + (steps - 1))

\* The generator behind torch.randn: a linear congruential sequence, whose
\* e-th draw from generator state seed is Lcg(seed, e).
RECURSIVE Lcg(_, _)
Lcg(seed, e) ==
    IF e < 0 THEN (13 * seed + 5) % 31 ELSE (11 * Lcg(seed, e - 1) + 7) % 31

\* torch.randn(k, num_ops) drawn with the generator in state seed: every
\* entry is one of 0..MaxW, fixed by the generator state and the position.
Randn(seed, k, n) ==
    [r \in 0..(k - 1) |->
        [c \in 0..(n - 1) |-> (Lcg(seed, r * n + c) \div 2) % (MaxW + 1)]]

NextSeed(seed) == (seed + 1) % (MaxSeed + 1)

ZerosLike(t) == [r \in DOMAIN t |-> [c \in DOMAIN t[r] |-> 0]]

\* A weight is a non-negative rational <<num, den>>.
WLess(a, b) == a[1] * b[2] < b[1] * a[2]

WEq(a, b) == a[1] * b[2] = b[1] * a[2]

\* F.softmax(t, dim=-1): each row normalised by its own sum of exponentials.
\* The exponential is taken to base 2: it is positive and strictly
\* increasing, which is all the discretisation reads of it.
Softmax(t) ==
    Materialize([r \in DOMAIN t |->
        LET den == SumSeq([c \in 1..num_ops |-> Pow2(t[r][c - 1])])
        IN  [c \in DOMAIN t[r] |-> <<Pow2(t[r][c]), den>>]])

\* -------------------------------------------------------------- genotype()
\* _isCNNStructure(k_best)
IsCNNStructure(k_best) == k_best >= CnnThreshold

\* Strength without the exclusion of "none"
StrengthWithNone(W, x) ==
    LET kmax == CHOOSE k \in DOMAIN W[x] : \A k2 \in DOMAIN W[x] : ~WLess(W[x][k], W[x][k2])
    IN  W[x][kmax]

\* max(W[x][k] for k in range(len(W[x])) if k != PRIMITIVES.index("none"))
Strength(W, x) ==
    LET ks == {k \in DOMAIN W[x] : k # PrimitivesIndex("none")}
        kmax == CHOOSE k \in ks : \A k2 \in ks : ~WLess(W[x][k], W[x][k2])
    IN  W[x][kmax]

\* One insertion of the stable sort by key -strength: x goes behind every
\* element whose key is not greater than its own.
RECURSIVE InsertByStrength(_, _, _)
InsertByStrength(strength, sorted, x) ==
    IF sorted = <<>> THEN <<x>>
    ELSE IF WLess(strength[sorted[1]], strength[x])
         THEN <<x>> \o sorted
         ELSE <<sorted[1]>> \o InsertByStrength(strength, Tail(sorted), x)

\* sorted(range(m), key=lambda x: -strength[x])
RECURSIVE SortedEdges(_, _)
SortedEdges(strength, m) ==
    IF m <= 0 THEN <<>>
    ELSE InsertByStrength(strength, SortedEdges(strength, m - 1), m - 1)

\* the k_best loop with >= for >: the last of several maxima wins
RECURSIVE KBestLast(_, _, _)
KBestLast(row, k, best) ==
    IF k >= Cardinality(DOMAIN row) THEN best
    ELSE IF k # PrimitivesIndex("none") /\ (best = -1 \/ ~WLess(row[k], row[best]))
         THEN KBestLast(row, k + 1, k)
         ELSE KBestLast(row, k + 1, best)

\* the k_best loop over one row; best = -1 stands for None
RECURSIVE KBest(_, _, _)
KBest(row, k, best) ==
    IF k >= Cardinality(DOMAIN row) THEN best
    ELSE IF k # PrimitivesIndex("none") /\ (best = -1 \/ WLess(row[best], row[k]))
         THEN KBest(row, k + 1, k)
         ELSE KBest(row, k + 1, best)

\* the body of "for j in edges": the (operation, source) pairs appended
RECURSIVE GenePairs(_, _)
GenePairs(W, edges) ==
    IF edges = <<>> THEN <<>>
    ELSE LET j == edges[1]
             k_best == KBest(W[j], 0, -1)
         IN  <<[op |-> PRIMITIVES[k_best + 1], src |-> j, k_best |-> k_best]>>
                 \o GenePairs(W, Tail(edges))

\* _parse(weights): the loop over the intermediate nodes with its running
\* start and n; windows records the [start, end) slice read for each node.
RECURSIVE ParseLoop(_, _, _, _, _, _)
ParseLoop(weights, steps, i, start, n, acc) ==
    IF i >= steps THEN acc
    ELSE LET end == start + n
             W == [x \in 0..(end - start - 1) |-> weights[start + x]]
             strength == Materialize([x \in 0..(i + 1) |-> Strength(W, x)])
             sorted == SortedEdges(strength, i + 2)
             edges == SubSeq(sorted, 1, IF Len(sorted) < 2 THEN Len(sorted) ELSE 2)
             pairs == GenePairs(W, edges)
             cnn == Cardinality({x \in 1..Len(pairs) : IsCNNStructure(pairs[x].k_best)})
         IN  ParseLoop(weights, steps, i + 1, end, n + 1,
                 [gene |-> acc.gene \o [x \in 1..Len(pairs) |-> <<pairs[x].op, pairs[x].src>>],
                  cnn_structure_count |-> acc.cnn_structure_count + cnn,
                  windows |-> Append(acc.windows, <<start, end>>)])

Parse(weights, steps) ==
    ParseLoop(weights, steps, 0, 0, 2,
        [gene |-> <<>>, cnn_structure_count |-> 0, windows |-> <<>>])

\* ------------------------------------------------------------ MixedOp, Cell
\* MixedOp.__init__: one candidate operation OPS[primitive](C, stride, False)
\* per primitive, so the module is fixed by C and stride.
MixedOp(C, stride) == [C |-> C, stride |-> stride]

\* the stride without the test of the source index
StrideOfCellKind(reduction, j) == IF reduction THEN 2 ELSE 1

\* stride = 2 if reduction and j < 2 else 1   (Cell.__init__)
StrideOf(reduction, j) == IF reduction /\ j < 2 THEN 2 ELSE 1

\* The two loops of Cell.__init__ appending to self._ops; edge is the (i, j)
\* of the iteration that appended the MixedOp.
RECURSIVE CellOpsLoop(_, _, _, _, _, _)
CellOpsLoop(steps, C, reduction, i, j, ops) ==
    IF i >= steps THEN ops
    ELSE IF j >= 2 + i THEN CellOpsLoop(steps, C, reduction, i + 1, 0, ops)
    ELSE CellOpsLoop(steps, C, reduction, i, j + 1,
             Append(ops, [mixed |-> MixedOp(C, StrideOf(reduction, j)), edge |-> <<i, j>>]))

\* Cell.__init__
Cell(steps, multiplier, C_prev_prev, C_prev, C, reduction, reduction_prev) ==
    [reduction |-> reduction,
     preprocess0 |-> [kind |-> IF reduction_prev THEN "FactorizedReduce" ELSE "ReLUConvBN",
                      C_in |-> C_prev_prev, C_out |-> C],
     preprocess1 |-> [kind |-> "ReLUConvBN", C_in |-> C_prev, C_out |-> C],
     steps |-> steps,
     multiplier |-> multiplier,
     ops |-> CellOpsLoop(steps, C, reduction, 0, 0, <<>>)]

\* A tensor that could not be computed (the engine raised).
Err == [ch |-> 0, res |-> 0, ok |-> FALSE]

Tensor(ch, res) == [ch |-> ch, res |-> res, ok |-> TRUE]

\* FactorizedReduce(C_in, C_out) halves the resolution, ReLUConvBN(C_in,
\* C_out, 1, 1, 0) keeps it; both need C_in input channels and give C_out.
ApplyPreprocess(p, x) ==
    IF ~x.ok \/ x.ch # p.C_in THEN Err
    ELSE Tensor(p.C_out, x.res + (IF p.kind = "FactorizedReduce" THEN 1 ELSE 0))

\* An operation built for C channels and a stride: needs C channels, gives C
\* channels, and halves the resolution when its stride is 2.
ApplyOp(C, stride, x) ==
    IF ~x.ok \/ x.ch # C THEN Err
    ELSE Tensor(C, x.res + (IF stride = 2 THEN 1 ELSE 0))

\* sum(...) of tensors: they must agree in shape
SumTensors(ts) ==
    IF ts # <<>> /\ \A x \in 1..Len(ts) : ts[x].ok /\ ts[x].ch = ts[1].ch /\ ts[x].res = ts[1].res
    THEN ts[1] ELSE Err

\* torch.cat(ts, dim=1): channels add up, the resolutions must agree
CatTensors(ts) ==
    IF ts # <<>> /\ \A x \in 1..Len(ts) : ts[x].ok /\ ts[x].res = ts[1].res
    THEN Tensor(SumSeq([x \in 1..Len(ts) |-> ts[x].ch]), ts[1].res) ELSE Err

\* MixedOp.forward(x, weights): every candidate is applied and weighted
MixedOpForward(mixed, x, w) ==
    SumTensors([p \in 1..(IF Len(PRIMITIVES) < Cardinality(DOMAIN w) THEN Len(PRIMITIVES)
                          ELSE Cardinality(DOMAIN w)) |->
                   ApplyOp(mixed.C, mixed.stride, x)])

\* an offset that advances by one row too few
NextOffsetShort(offset, states) == offset + Len(states) - 1

\* offset += len(states)
NextOffset(offset, states) == offset + Len(states)

\* The loop of Cell.forward with its running offset. uses records, for each
\* term of each node's sum, the state index, the op index and the weight row.
RECURSIVE CellForwardLoop(_, _, _, _, _, _)
CellForwardLoop(cell, weights, i, offset, states, uses) ==
    IF i >= cell.steps THEN [states |-> states, uses |-> uses]
    ELSE LET terms == [x \in 1..Len(states) |->
                          LET j == x - 1
                          IN  IF offset + j >= Len(cell.ops) \/ (offset + j) \notin DOMAIN weights
                              THEN Err
                              ELSE MixedOpForward(cell.ops[offset + j + 1].mixed, states[x],
                                       weights[offset + j])]
             s == SumTensors(terms)
             used == [x \in 1..Len(states) |->
                         [node |-> i, state |-> x - 1, op |-> offset + x - 1,
                          w |-> offset + x - 1, operand |-> terms[x]]]
         IN  CellForwardLoop(cell, weights, i + 1, NextOffset(offset, states),
                 Append(states, s), uses \o used)

\* Cell.forward(s0, s1, weights)
CellForward(cell, s0, s1, weights) ==
    LET p0 == ApplyPreprocess(cell.preprocess0, s0)
        p1 == ApplyPreprocess(cell.preprocess1, s1)
        run == CellForwardLoop(cell, weights, 0, 0, <<p0, p1>>, <<>>)
        cat == SliceLastIndices(Len(run.states), cell.multiplier)
    IN  [out |-> CatTensors([x \in 1..Len(cat) |-> run.states[cat[x] + 1]]),
         states |-> run.states, uses |-> run.uses, cat |-> cat]

\* ------------------------------------------------------------------ Network
\* the width of a cell's output without the multiplier
NextCPrevNoMultiplier(multiplier, C_curr) == C_curr

\* C_prev = multiplier * C_curr
NextCPrev(multiplier, C_curr) == multiplier * C_curr

\* The loop of Network.__init__ / EMNIST.__init__ building the cells.
RECURSIVE CellsLoop(_, _, _, _, _, _, _, _, _)
CellsLoop(layers, steps, multiplier, i, C_prev_prev, C_prev, C_curr, reduction_prev, cells) ==
    IF i >= layers THEN [cells |-> cells, C_prev |-> C_prev]
    ELSE LET reduction == i \in {layers \div 3, (2 * layers) \div 3}
             C_now == IF reduction THEN C_curr * 2 ELSE C_curr
             cell == Cell(steps, multiplier, C_prev_prev, C_prev, C_now, reduction, reduction_prev)
         IN  CellsLoop(layers, steps, multiplier, i + 1, C_prev, NextCPrev(multiplier, C_now),
                 C_now, reduction, Append(cells, cell))

\* Network.__init__ (kind "Network", 3 input channels) and EMNIST.__init__
\* (kind "EMNIST", 1 input channel); the four tensors of _initialize_alphas
\* live in the heap at base+1..base+4.
NetworkObj(kind, C, num_classes, layers, steps, multiplier, stem_multiplier, base) ==
    LET built == CellsLoop(layers, steps, multiplier, 0, stem_multiplier * C,
                     stem_multiplier * C, C, FALSE, <<>>)
    IN  [kind |-> kind, C |-> C, num_classes |-> num_classes, layers |-> layers,
         steps |-> steps, multiplier |-> multiplier, stem_multiplier |-> stem_multiplier,
         stem |-> [C_in |-> IF kind = "EMNIST" THEN 1 ELSE 3, C_out |-> stem_multiplier * C],
         cells |-> built.cells,
         classifier |-> [C_in |-> built.C_prev, C_out |-> num_classes],
         alphas_normal |-> base + 1, alphas_reduce |-> base + 2,
         history_normal |-> base + 3, history_reduce |-> base + 4]

\* _initialize_alphas: the four tensors appended to the heap, in the order
\* alphas_normal, alphas_reduce, history_normal, history_reduce.
InitializeAlphas(seed, steps) ==
    LET k == NumRows(steps)
        an == Randn(seed, k, num_ops)
        ar == Randn(NextSeed(seed), k, num_ops)
    IN  <<an, ar, ZerosLike(an), ZerosLike(ar)>>

\* Network.new / EMNIST.new: both build Network(C, num_classes, layers,
\* criterion, device), so steps, multiplier and stem_multiplier take their
\* defaults and the kind is "Network"; the object sits at heap base.
NetworkNew(self, base) ==
    NetworkObj("Network", self.C, self.num_classes, self.layers,
        DefaultSteps, DefaultMultiplier, DefaultStemMultiplier, base)

EMNISTNew(self, base) ==
    NetworkObj("Network", self.C, self.num_classes, self.layers,
        DefaultSteps, DefaultMultiplier, DefaultStemMultiplier, base)

\* x.data.copy_(y.data): y is broadcast to x's shape, or the engine raises.
CopyOk(x, y) ==
    /\ Cardinality(DOMAIN y) \in {1, Cardinality(DOMAIN x)}
    /\ \A r \in DOMAIN x : \A q \in DOMAIN y :
           Cardinality(DOMAIN y[q]) \in {1, Cardinality(DOMAIN x[r])}

Copy(x, y) ==
    [r \in DOMAIN x |->
        LET q == IF Cardinality(DOMAIN y) = 1 THEN 0 ELSE r
        IN  [c \in DOMAIN x[r] |-> y[q][IF Cardinality(DOMAIN y[q]) = 1 THEN 0 ELSE c]]]

\* ------------------------------------- InnerCell, ModelForModelSizeMeasure
\* stride = 2 if reduction and j < 2 else 1   (InnerCell.__init__)
InnerStrideOf(reduction, j) == IF reduction /\ j < 2 THEN 2 ELSE 1

\* a scan that keeps the last maximal entry
RECURSIVE ArgmaxScanLast(_, _, _)
ArgmaxScanLast(row, k, best) ==
    IF k >= Cardinality(DOMAIN row) THEN best
    ELSE IF row[k] >= row[best] THEN ArgmaxScanLast(row, k + 1, k)
         ELSE ArgmaxScanLast(row, k + 1, best)

\* weight.argmax(): the index of the first maximal entry, by a linear scan
RECURSIVE ArgmaxScan(_, _, _)
ArgmaxScan(row, k, best) ==
    IF k >= Cardinality(DOMAIN row) THEN best
    ELSE IF row[k] > row[best] THEN ArgmaxScan(row, k + 1, k)
         ELSE ArgmaxScan(row, k + 1, best)

Argmax(row) == ArgmaxScan(row, 1, 0)

\* The two loops of InnerCell.__init__ with the running offset: one chosen
\* operation per edge; edge is the (i, j) of the iteration that appended it.
RECURSIVE InnerOpsLoop(_, _, _, _, _, _, _, _)
InnerOpsLoop(steps, C, reduction, weights, i, j, offset, ops) ==
    IF i >= steps THEN ops
    ELSE IF j >= 2 + i
         THEN InnerOpsLoop(steps, C, reduction, weights, i + 1, 0, offset + i + 2, ops)
    ELSE LET stride == InnerStrideOf(reduction, j)
             weight == weights[offset + j]
             choice == OPS_keys[Argmax(weight) + 1]
         IN  InnerOpsLoop(steps, C, reduction, weights, i, j + 1, offset,
                 Append(ops, [name |-> choice, C |-> C, stride |-> stride,
                              row |-> offset + j, edge |-> <<i, j>>]))

\* InnerCell.__init__; held is the set of heap tensors the module keeps as
\* parameters or attributes: weights is read and not stored.
InnerCell(steps, multiplier, C_prev_prev, C_prev, C, reduction, reduction_prev, weights) ==
    [reduction |-> reduction,
     preprocess0 |-> [kind |-> IF reduction_prev THEN "FactorizedReduce" ELSE "ReLUConvBN",
                      C_in |-> C_prev_prev, C_out |-> C],
     preprocess1 |-> [kind |-> "ReLUConvBN", C_in |-> C_prev, C_out |-> C],
     steps |-> steps,
     multiplier |-> multiplier,
     ops |-> InnerOpsLoop(steps, C, reduction, weights, 0, 0, 0, <<>>),
     held |-> {}]

\* The loop of InnerCell.forward
RECURSIVE InnerForwardLoop(_, _, _, _, _)
InnerForwardLoop(cell, i, offset, states, uses) ==
    IF i >= cell.steps THEN [states |-> states, uses |-> uses]
    ELSE LET terms == [x \in 1..Len(states) |->
                          IF offset + x - 1 >= Len(cell.ops) THEN Err
                          ELSE ApplyOp(cell.ops[offset + x].C, cell.ops[offset + x].stride,
                                   states[x])]
             used == [x \in 1..Len(states) |->
                         [node |-> i, state |-> x - 1, op |-> offset + x - 1]]
         IN  InnerForwardLoop(cell, i + 1, offset + Len(states),
                 Append(states, SumTensors(terms)), uses \o used)

\* InnerCell.forward(s0, s1)
InnerCellForward(cell, s0, s1) ==
    LET p0 == ApplyPreprocess(cell.preprocess0, s0)
        p1 == ApplyPreprocess(cell.preprocess1, s1)
        run == InnerForwardLoop(cell, 0, 0, <<p0, p1>>, <<>>)
        cat == SliceLastIndices(Len(run.states), cell.multiplier)
    IN  [out |-> CatTensors([x \in 1..Len(cat) |-> run.states[cat[x] + 1]]),
         states |-> run.states, uses |-> run.uses, cat |-> cat]

\* The loop of ModelForModelSizeMeasure.__init__ building the InnerCells:
\* a reduction cell reads alphas_reduce, any other cell alphas_normal.
RECURSIVE InnerCellsLoop(_, _, _, _, _, _, _, _, _, _, _)
InnerCellsLoop(layers, steps, multiplier, alphas_normal, alphas_reduce, i, C_prev_prev, C_prev, C_curr, reduction_prev, cells) ==
    IF i >= layers THEN [cells |-> cells, C_prev |-> C_prev]
    ELSE LET reduction == i \in {layers \div 3, (2 * layers) \div 3}
             C_now == IF reduction THEN C_curr * 2 ELSE C_curr
             cell == InnerCell(steps, multiplier, C_prev_prev, C_prev, C_now, reduction,
                         reduction_prev, IF reduction THEN alphas_reduce ELSE alphas_normal)
         IN  InnerCellsLoop(layers, steps, multiplier, alphas_normal, alphas_reduce, i + 1,
                 C_prev, multiplier * C_now, C_now, reduction, Append(cells, cell))

\* ModelForModelSizeMeasure.__init__; the stem always takes 3 input channels
ModelForModelSizeMeasure(C, num_classes, layers, alphas_normal, alphas_reduce, steps, multiplier, stem_multiplier) ==
    LET built == InnerCellsLoop(layers, steps, multiplier, alphas_normal, alphas_reduce,
                     0, stem_multiplier * C, stem_multiplier * C, C, FALSE, <<>>)
    IN  [live |-> TRUE, C |-> C, num_classes |-> num_classes, layers |-> layers,
         steps |-> steps, multiplier |-> multiplier,
         stem |-> [C_in |-> 3, C_out |-> stem_multiplier * C],
         cells |-> built.cells,
         classifier |-> [C_in |-> built.C_prev, C_out |-> num_classes],
         held |-> UNION {built.cells[x].held : x \in 1..Len(built.cells)}]

\* Learnable parameters of one chosen operation (none of its normalisations
\* is affine): nothing for "none" and for the identity, C*C for the
\* factorized reduce a strided skip is, two depthwise-separable blocks for
\* the separable convolution.
OpParams(op) ==
    IF op.name = "none" THEN 0
    ELSE IF op.name = "skip_connect" THEN (IF op.stride = 1 THEN 0 ELSE op.C * op.C)
    ELSE 2 * (9 * op.C + op.C * op.C)

\* count_parameters_in_MB(model), in parameters: stem convolution and
\* normalisation, preprocessing convolutions, chosen operations, classifier.
CountParameters(model) ==
    27 * model.stem.C_out + 2 * model.stem.C_out
    + SumSeq([x \in 1..Len(model.cells) |->
          model.cells[x].preprocess0.C_in * model.cells[x].preprocess0.C_out
          + model.cells[x].preprocess1.C_in * model.cells[x].preprocess1.C_out
          + SumSeq([y \in 1..Len(model.cells[x].ops) |-> OpParams(model.cells[x].ops[y])])])
    + model.classifier.C_in * model.classifier.C_out + model.classifier.C_out

\* -------------------------------------------------------------------- state
VARIABLES
    pc,         \* "unbuilt", "idle", "forward" (inside Network.forward),
                \* "measuring" (inside get_current_model_size)
    net,        \* the search network
    heap,       \* tensor storages: heap[id] is the table of tensor id
    rng,        \* state of the random generator
    clone,      \* what new() returned: [status, net]
    fwd,        \* the running forward pass: cell index, s0, s1, last cell's record
    sizeModel,  \* the local "model" of get_current_model_size
    ret         \* the value the last finished call returned

vars == <<pc, net, heap, rng, clone, fwd, sizeModel, ret>>

NoNet == NetworkObj("Network", 0, 0, 0, 0, 0, 0, 0)

NoCell == [out |-> Err, states |-> <<>>, uses |-> <<>>, cat |-> <<>>, in0 |-> Err, in1 |-> Err]

NoFwd == [k |-> 0, s0 |-> Err, s1 |-> Err, last |-> NoCell]

NoModel == [live |-> FALSE, C |-> 0, num_classes |-> 0, layers |-> 0, steps |-> 0,
            multiplier |-> 0, stem |-> [C_in |-> 0, C_out |-> 0], cells |-> <<>>,
            classifier |-> [C_in |-> 0, C_out |-> 0], held |-> {}]

Kinds == {"Network", "EMNIST"}

StepsSet == (0..MaxSteps) \cup {DefaultSteps}

MultiplierSet == (1..MaxMult) \cup {DefaultMultiplier}

StemMultiplierSet == {1, DefaultStemMultiplier}

NumClassesSet == {10}

Init ==
    /\ pc = "unbuilt"
    /\ net = NoNet
    /\ heap = <<>>
    /\ rng \in 0..MaxSeed
    /\ clone = [status |-> "none", net |-> NoNet]
    /\ fwd = NoFwd
    /\ sizeModel = NoModel
    /\ ret = [op |-> "none"]

\* Network(C, num_classes, layers, criterion, device, steps, multiplier,
\* stem_multiplier) or EMNIST(...): no argument is checked.
Construct(kind, C, num_classes, layers, steps, multiplier, stem_multiplier) ==
    /\ pc = "unbuilt"
    /\ net' = NetworkObj(kind, C, num_classes, layers, steps, multiplier, stem_multiplier,
                  Len(heap))
    /\ heap' = heap \o InitializeAlphas(rng, steps)
    /\ rng' = NextSeed(NextSeed(rng))
    /\ pc' = "idle"
    /\ ret' = [op |-> "init"]
    /\ UNCHANGED <<clone, fwd, sizeModel>>

\* arch_parameters()
ArchParameters(n) == <<n.alphas_normal, n.alphas_reduce>>

\* new(): build the copy, then copy_ each architecture table into it; a
\* copy_ the engine refuses raises out of new().
New ==
    /\ pc = "idle"
    /\ clone.status = "none"
    /\ LET model_new == IF net.kind = "EMNIST" THEN EMNISTNew(net, Len(heap))
                        ELSE NetworkNew(net, Len(heap))
           fresh == heap \o InitializeAlphas(rng, model_new.steps)
           xs == ArchParameters(model_new)
           ys == ArchParameters(net)
       IN  IF \A z \in 1..Len(xs) : CopyOk(fresh[xs[z]], fresh[ys[z]])
           THEN /\ heap' = [id \in 1..Len(fresh) |->
                               IF \E z \in 1..Len(xs) : xs[z] = id
                               THEN Copy(fresh[id],
                                        fresh[ys[CHOOSE z \in 1..Len(xs) : xs[z] = id]])
                               ELSE fresh[id]]
                /\ clone' = [status |-> "ok", net |-> model_new]
           ELSE /\ heap' = heap
                /\ clone' = [status |-> "error", net |-> NoNet]
    /\ rng' = NextSeed(NextSeed(rng))
    /\ ret' = [op |-> "new"]
    /\ UNCHANGED <<pc, net, fwd, sizeModel>>

\* genotype()
Genotype ==
    /\ pc = "idle"
    /\ LET pn == Parse(Softmax(heap[net.alphas_normal]), net.steps)
           pr == Parse(Softmax(heap[net.alphas_reduce]), net.steps)
           concat == Range(2 + net.steps - net.multiplier, net.steps + 2)
       IN  ret' = [op |-> "genotype",
                   normal |-> pn.gene, normal_concat |-> concat,
                   reduce |-> pr.gene, reduce_concat |-> concat,
                   cnn_structure_count_normal |-> pn.cnn_structure_count,
                   cnn_structure_count_reduce |-> pr.cnn_structure_count,
                   windows_normal |-> pn.windows, windows_reduce |-> pr.windows]
    /\ UNCHANGED <<pc, net, heap, rng, clone, fwd, sizeModel>>

\* a construction that hard-selects the operations in the live tables
SizeBuildInPlace ==
    /\ pc = "idle"
    /\ sizeModel' = ModelForModelSizeMeasure(net.C, net.num_classes, net.layers,
                        heap[net.alphas_normal], heap[net.alphas_reduce],
                        net.steps, net.multiplier, net.stem_multiplier)
    /\ heap' = [heap EXCEPT ![net.alphas_normal] =
                    [r \in DOMAIN @ |-> [c \in DOMAIN @[r] |-> IF c = Argmax(@[r]) THEN 1 ELSE 0]]]
    /\ pc' = "measuring"
    /\ ret' = [op |-> "none"]
    /\ UNCHANGED <<net, rng, clone, fwd>>

\* get_current_model_size(), up to the construction of the throwaway model
SizeBuild ==
    /\ pc = "idle"
    /\ sizeModel' = ModelForModelSizeMeasure(net.C, net.num_classes, net.layers,
                        heap[net.alphas_normal], heap[net.alphas_reduce],
                        net.steps, net.multiplier, net.stem_multiplier)
    /\ pc' = "measuring"
    /\ ret' = [op |-> "none"]
    /\ UNCHANGED <<net, heap, rng, clone, fwd>>

\* get_current_model_size(), the rest: count, del model, return size
SizeReturn ==
    /\ pc = "measuring"
    /\ ret' = [op |-> "size", size |-> CountParameters(sizeModel)]
    /\ sizeModel' = NoModel
    /\ pc' = "idle"
    /\ UNCHANGED <<net, heap, rng, clone, fwd>>

\* Network.forward: s0 = s1 = self.stem(input), for an input of the
\* channel count the stem was built for
ForwardStart ==
    /\ pc = "idle"
    /\ LET s == Tensor(net.stem.C_out, 0)
       IN  fwd' = [k |-> 0, s0 |-> s, s1 |-> s, last |-> NoCell]
    /\ pc' = "forward"
    /\ ret' = [op |-> "none"]
    /\ UNCHANGED <<net, heap, rng, clone, sizeModel>>

\* Network.forward: one iteration of the loop over self.cells; a tensor the
\* engine cannot compute raises out of forward().
ForwardCell ==
    /\ pc = "forward"
    /\ fwd.k < Len(net.cells)
    /\ LET cell == net.cells[fwd.k + 1]
           weights == IF cell.reduction THEN Softmax(heap[net.alphas_reduce])
                      ELSE Softmax(heap[net.alphas_normal])
           run == CellForward(cell, fwd.s0, fwd.s1, weights)
           rec == [out |-> run.out, states |-> run.states, uses |-> run.uses,
                   cat |-> run.cat, in0 |-> fwd.s0, in1 |-> fwd.s1]
       IN  IF run.out.ok
           THEN /\ fwd' = [k |-> fwd.k + 1, s0 |-> fwd.s1, s1 |-> run.out, last |-> rec]
                /\ UNCHANGED <<pc, ret>>
           ELSE /\ fwd' = NoFwd
                /\ pc' = "idle"
                /\ ret' = [op |-> "forward", ok |-> FALSE, at |-> fwd.k, last |-> rec,
                           logits |-> Err]
    /\ UNCHANGED <<net, heap, rng, clone, sizeModel>>

\* Network.forward: global pooling and the classifier, then return
ForwardReturn ==
    /\ pc = "forward"
    /\ fwd.k >= Len(net.cells)
    /\ LET ok == fwd.s1.ch = net.classifier.C_in
       IN  ret' = [op |-> "forward", ok |-> ok, at |-> fwd.k, last |-> fwd.last,
                   logits |-> IF ok THEN Tensor(net.classifier.C_out, 0) ELSE Err]
    /\ fwd' = NoFwd
    /\ pc' = "idle"
    /\ UNCHANGED <<net, heap, rng, clone, sizeModel>>

Next ==
    \/ \E kind \in Kinds, C \in 1..MaxC, num_classes \in NumClassesSet, layers \in 0..MaxLayers,
          steps \in StepsSet, multiplier \in MultiplierSet, stem_multiplier \in StemMultiplierSet :
          Construct(kind, C, num_classes, layers, steps, multiplier, stem_multiplier)
    \/ New
    \/ Genotype
    \/ SizeBuild
    \/ SizeReturn
    \/ ForwardStart
    \/ ForwardCell
    \/ ForwardReturn

Spec == Init /\ [][Next]_vars

\* ------------------------------------------- genotype() over weight tables
\* A table of which the optimizer has written the rows R (g gives them);
\* every other row is zero.
TrainedTable(steps, R, g) ==
    [r \in 0..(NumRows(steps) - 1) |->
        IF r \in R THEN g[r] ELSE [c \in 0..(num_ops - 1) |-> 0]]

\* The table t with the columns of every row in reverse order.
Mirrored(t) ==
    [r \in DOMAIN t |-> [c \in DOMAIN t[r] |-> t[r][Cardinality(DOMAIN t[r]) - 1 - c]]]

\* A network in the middle of a search: the optimizer has written at most
\* MaxTrainedRows rows, all of one intermediate node, alphas_reduce holding
\* the mirror image of alphas_normal.
InitParse ==
    /\ pc = "idle"
    /\ \E steps \in 1..MaxSteps :
          /\ net = NetworkObj("Network", 1, 10, 1, steps, steps, DefaultStemMultiplier, 0)
          /\ \E i \in 0..(steps - 1) :
             \E R \in {Q \in SUBSET (NumRows(i)..(NumRows(i + 1) - 1)) :
                          Cardinality(Q) = (IF i + 2 < MaxTrainedRows THEN i + 2
                                            ELSE MaxTrainedRows)} :
             \E g \in [R -> [0..(num_ops - 1) -> 0..MaxW]] :
                LET t == TrainedTable(steps, R, g)
                    z == ZerosLike(t)
                IN  heap = <<t, Mirrored(t), z, z>>
    /\ rng = 0
    /\ clone = [status |-> "none", net |-> NoNet]
    /\ fwd = NoFwd
    /\ sizeModel = NoModel
    /\ ret = [op |-> "init"]

SpecParse == InitParse /\ [][Genotype]_vars

\* ------------------------------------------------------------------ claims
\* The row of the weight tables that belongs to edge (node i, source j).
EdgeRow(i, j) == (i * (i + 3)) \div 2 + j

\* Strength of edge (i, j) in the weight table W: the largest weight of its
\* row among the operations other than "none".
EdgeStrength(W, i, j) ==
    LET row == W[EdgeRow(i, j)]
    IN  CHOOSE w \in {row[k] : k \in {q \in DOMAIN row : PRIMITIVES[q + 1] # "none"}} :
            \A k \in DOMAIN row : PRIMITIVES[k + 1] # "none" => ~WLess(w, row[k])

\* Edge (i, a) ranks before edge (i, b): stronger, or as strong with the
\* lower source index.
RanksBefore(W, i, a, b) ==
    \/ WLess(EdgeStrength(W, i, b), EdgeStrength(W, i, a))
    \/ WEq(EdgeStrength(W, i, a), EdgeStrength(W, i, b)) /\ a < b

\* The gene holds, for node i, the two best-ranked edges in rank order.
TopTwoKept(W, gene, steps) ==
    /\ Len(gene) = 2 * steps
    /\ \A i \in 0..(steps - 1) :
          LET a == gene[2 * i + 1][2]
              b == gene[2 * i + 2][2]
          IN  /\ a \in 0..(i + 1) /\ b \in 0..(i + 1) /\ a # b
              /\ RanksBefore(W, i, a, b)
              /\ \A x \in 0..(i + 1) : x \notin {a, b} => RanksBefore(W, i, b, x)
              /\ i = 0 => {a, b} = {0, 1}

\* C1: every node of a gene returned by genotype() records exactly two
\* edges, from two distinct sources in [0, i+2), and they are the two
\* strongest incoming edges of the node (strength = largest weight of the
\* row over the operations other than "none"), equal strengths taken in
\* ascending source order; the gene has 2*steps entries and node 0 keeps
\* both of its edges.
C1_TopTwoEdges ==
    ret.op = "genotype" =>
        /\ TopTwoKept(Softmax(heap[net.alphas_normal]), ret.normal, net.steps)
        /\ TopTwoKept(Softmax(heap[net.alphas_reduce]), ret.reduce, net.steps)

\* C1 witness: a node with three incoming edges where the last edge is the
\* strongest and the other two are equally strong, so that one edge is
\* dropped and the tie decides which.
C1_Witness ==
    /\ ret.op = "genotype"
    /\ net.steps >= 2
    /\ LET W == Softmax(heap[net.alphas_normal])
       IN  /\ WLess(EdgeStrength(W, 1, 0), EdgeStrength(W, 1, 2))
           /\ WEq(EdgeStrength(W, 1, 0), EdgeStrength(W, 1, 1))
           /\ ret.normal[3][2] = 2 /\ ret.normal[4][2] = 0

\* The operation recorded for edge (i, j) is the first operation other than
\* "none" that carries the largest weight among those of the row.
BestOpRecorded(W, gene, steps) ==
    \A x \in 1..Len(gene) :
        LET i == (x - 1) \div 2
            row == W[EdgeRow(i, gene[x][2])]
            cand == {k \in DOMAIN row : PRIMITIVES[k + 1] # "none"}
            best == {k \in cand : \A q \in cand : ~WLess(row[k], row[q])}
        IN  /\ gene[x][1] # "none"
            /\ \E k \in best : /\ gene[x][1] = PRIMITIVES[k + 1]
                                /\ \A q \in best : k <= q

\* C2: for every kept edge the recorded operation is the operation with the
\* highest weight of the edge's row among the operations other than "none",
\* the lowest index when several share it; "none" is never recorded.
C2_BestOperation ==
    ret.op = "genotype" =>
        /\ BestOpRecorded(Softmax(heap[net.alphas_normal]), ret.normal, net.steps)
        /\ BestOpRecorded(Softmax(heap[net.alphas_reduce]), ret.reduce, net.steps)

\* C2 witness: a kept edge whose row gives "none" the strictly highest
\* weight and the same weight to the other operations.
C2_Witness ==
    /\ ret.op = "genotype"
    /\ \E x \in 1..Len(ret.reduce) :
          LET row == heap[net.alphas_reduce][EdgeRow((x - 1) \div 2, ret.reduce[x][2])]
          IN  /\ \A k \in DOMAIN row : k # PrimitivesIndex("none") =>
                     row[k] < row[PrimitivesIndex("none")]
              /\ ret.reduce[x][1] = "skip_connect"

\* A configuration the specification calls valid for a cell.
ValidCell(n) == n.steps >= 1 /\ n.multiplier >= 1 /\ n.multiplier <= n.steps + 2

\* A configuration the specification calls valid for a network.
ValidConfig(n) == n.layers >= 1 /\ ValidCell(n)

\* What Cell.forward concatenates, for a normal cell of the network's steps
\* and multiplier run on two inputs of the width it was built for.
ForwardConcat(n) ==
    CellForward(Cell(n.steps, n.multiplier, n.C, n.C, n.C, FALSE, FALSE),
        Tensor(n.C, 0), Tensor(n.C, 0), Softmax(heap[n.alphas_normal])).cat

\* genotype()'s concat is the same for both cell kinds and lists, in order,
\* the states Cell.forward concatenates, in the network's cells as well.
ConcatIsForwardSlice ==
    /\ ret.normal_concat = ret.reduce_concat
    /\ ret.normal_concat = ForwardConcat(net)
    /\ Len(ret.normal_concat) = net.multiplier
    /\ \A x \in 1..Len(net.cells) :
          ret.normal_concat = SliceLastIndices(net.cells[x].steps + 2, net.cells[x].multiplier)
    /\ \A x \in 1..Len(ret.normal_concat) : ret.normal_concat[x] \in 0..(net.steps + 1)

C4_CloneFaithful ==
    clone.status # "none" =>
        /\ clone.status = "ok"
        /\ clone.net.kind = net.kind /\ clone.net.stem = net.stem
        /\ clone.net.C = net.C /\ clone.net.num_classes = net.num_classes
        /\ clone.net.layers = net.layers /\ clone.net.steps = net.steps
        /\ clone.net.multiplier = net.multiplier
        /\ clone.net.stem_multiplier = net.stem_multiplier
        /\ heap[clone.net.alphas_normal] = heap[net.alphas_normal]
        /\ heap[clone.net.alphas_reduce] = heap[net.alphas_reduce]
        /\ {clone.net.alphas_normal, clone.net.alphas_reduce}
              \cap {net.alphas_normal, net.alphas_reduce} = {}

\* C5 as stated: no object is constructed from an invalid configuration
\* (steps <= 0, multiplier <= 0, layers <= 0 or multiplier > steps+2), and no
\* cell of a constructed network concatenates, in a forward pass, a number
\* of states other than multiplier.
C5_InvalidRejected ==
    /\ pc # "unbuilt" => ValidConfig(net)
    /\ (pc = "forward" /\ fwd.k >= 1) => Len(fwd.last.cat) = net.multiplier
    /\ (ret.op = "forward" /\ ret.last.states # <<>>) => Len(ret.last.cat) = net.multiplier

\* The width C_curr of cell k (0-based): C doubled at each reduction
\* position (layers // 3 and 2 * layers // 3) up to and including k.
CurrWidth(n, k) ==
    n.C * Pow2(Cardinality({q \in {n.layers \div 3, (2 * n.layers) \div 3} : q <= k}))

\* Channels of the output of cell k; the stem output for k < 0.
OutChannels(n, k) ==
    IF k < 0 THEN n.stem_multiplier * n.C ELSE n.multiplier * CurrWidth(n, k)

\* The constructed widths: cell k takes the output widths of its two
\* predecessors and the classifier that of the last cell.
WidthsThreaded(n) ==
    /\ Len(n.cells) = n.layers
    /\ \A k \in 0..(n.layers - 1) :
          /\ n.cells[k + 1].preprocess0.C_in = OutChannels(n, k - 2)
          /\ n.cells[k + 1].preprocess1.C_in = OutChannels(n, k - 1)
          /\ n.cells[k + 1].preprocess0.C_out = CurrWidth(n, k)
          /\ n.cells[k + 1].preprocess1.C_out = CurrWidth(n, k)
    /\ n.classifier.C_in = OutChannels(n, n.layers - 1)

\* The record of the forward pass of cell k (0-based): the tensors it was
\* given have the widths it was built for, every state has C_curr channels,
\* the multiplier concatenated states have multiplier * C_curr channels in
\* all, and so has the output.
CellRecordExact(n, k, rec) ==
    /\ rec.in0.ok /\ rec.in0.ch = n.cells[k + 1].preprocess0.C_in
    /\ rec.in1.ok /\ rec.in1.ch = n.cells[k + 1].preprocess1.C_in
    /\ rec.in0.ch = OutChannels(n, k - 2) /\ rec.in1.ch = OutChannels(n, k - 1)
    /\ Len(rec.states) = n.steps + 2
    /\ \A x \in 1..Len(rec.states) : rec.states[x].ok /\ rec.states[x].ch = CurrWidth(n, k)
    /\ Len(rec.cat) = n.multiplier
    /\ SumSeq([x \in 1..Len(rec.cat) |-> rec.states[rec.cat[x] + 1].ch])
          = n.multiplier * CurrWidth(n, k)
    /\ rec.out.ok => rec.out.ch = n.multiplier * CurrWidth(n, k)

Edges(steps) == {e \in (0..(steps - 1)) \X (0..steps) : e[2] < e[1] + 2}

\* Every edge (i, j) of the cell has stride 2 if the cell is a reduction
\* cell and j < 2, and stride 1 otherwise; stride(op) reads an op's stride.
StridesByRule(cell, stride(_)) ==
    /\ Len(cell.ops) = Cardinality(Edges(cell.steps))
    /\ \A e \in Edges(cell.steps) :
          LET s == stride(cell.ops[EdgeRow(e[1], e[2]) + 1])
          IN  /\ s \in {1, 2}
              /\ s = 2 <=> (cell.reduction /\ e[2] < 2)

MixedStride(op) == op.mixed.stride

ChosenStride(op) == op.stride

\* C7: in every cell built by Cell (the network's and its copy's) or by
\* InnerCell (the size-measuring model's), the operation of edge (i, j) is
\* built with stride 2 if and only if the cell is a reduction cell and
\* j < 2, and with stride 1 otherwise.
C7_StrideRule ==
    /\ \A x \in 1..Len(net.cells) : StridesByRule(net.cells[x], MixedStride)
    /\ \A x \in 1..Len(clone.net.cells) : StridesByRule(clone.net.cells[x], MixedStride)
    /\ \A x \in 1..Len(sizeModel.cells) : StridesByRule(sizeModel.cells[x], ChosenStride)

\* C7 witness: a network and its size-measuring model with a normal and a
\* reduction cell of two nodes each: in the reduction cell the edges from
\* the cell inputs have stride 2 and the edge from node 0 has stride 1.
C7_Witness ==
    /\ sizeModel.live
    /\ net.layers = 3 /\ net.steps = 2
    /\ ~net.cells[1].reduction /\ net.cells[2].reduction
    /\ net.cells[1].ops[EdgeRow(1, 0) + 1].mixed.stride = 1
    /\ net.cells[2].ops[EdgeRow(1, 1) + 1].mixed.stride = 2
    /\ net.cells[2].ops[EdgeRow(1, 2) + 1].mixed.stride = 1
    /\ sizeModel.cells[2].ops[EdgeRow(1, 1) + 1].stride = 2
    /\ sizeModel.cells[2].ops[EdgeRow(1, 2) + 1].stride = 1

\* C8: get_current_model_size() leaves the network and every tensor of the
\* heap, alphas_normal, alphas_reduce, history_normal and history_reduce
\* among them, as they were, at the construction of the throwaway model
\* and at the return; the model holds no tensor of the heap, and it is gone
\* when the call has returned, so that calls can repeat without a trace.
C8_SizeLeavesTables ==
    [][(pc = "measuring" \/ pc' = "measuring") =>
          /\ heap' = heap /\ net' = net /\ clone' = clone
          /\ sizeModel'.held = {}
          /\ \A x \in 1..Len(sizeModel'.cells) : sizeModel'.cells[x].held = {}
          /\ pc' = "measuring" => sizeModel'.live
          /\ pc' # "measuring" => (pc' = "idle" /\ sizeModel' = NoModel /\ ret'.op = "size")]_vars

\* C8 witness: a size call has returned for a network with cells and edges
\* whose tables are not all equal, and the throwaway model is gone.
C8_Witness ==
    /\ ret.op = "size" /\ ret.size > 0
    /\ pc = "idle" /\ sizeModel = NoModel
    /\ net.layers >= 2 /\ net.steps >= 2
    /\ heap[net.alphas_normal] # heap[net.alphas_reduce]
    /\ heap[net.history_normal] = ZerosLike(heap[net.alphas_normal])

\* steps * (steps + 3) / 2
RowCount(steps) == (steps * (steps + 3)) \div 2

\* The record of a cell's forward pass: the x-th term pairs states[j] of
\* node i with the op and the weight row at EdgeRow(i, j), and the terms run
\* through every row once, in order.
UsesByRow(cell, rec) ==
    /\ Len(rec.uses) = RowCount(cell.steps)
    /\ \A x \in 1..Len(rec.uses) :
          LET u == rec.uses[x]
          IN  /\ <<u.node, u.state>> \in Edges(cell.steps)
              /\ u.op = EdgeRow(u.node, u.state) /\ u.w = u.op /\ u.op = x - 1
              /\ u.op < Len(cell.ops)
              /\ cell.ops[u.op + 1].edge = <<u.node, u.state>>

\* The [start, end) slices _parse reads: node i reads the rows of its edges.
WindowsByRow(windows, steps) ==
    /\ Len(windows) = steps
    /\ \A i \in 0..(steps - 1) :
          windows[i + 1] = <<EdgeRow(i, 0), EdgeRow(i, 0) + i + 2>>
    /\ windows[steps][2] = RowCount(steps)

\* C9: for steps >= 1 the edge (node i, source j) is row i*(i+3)/2 + j
\* everywhere: the mapping is a bijection from the edges to the
\* steps*(steps+3)/2 rows of the weight tables (14 for steps = 4),
\* Cell.__init__ puts the edge's MixedOp at that position, Cell.forward
\* pairs states[j] with the op and the weight row at that position, and
\* _parse reads rows [i*(i+3)/2, i*(i+3)/2 + i + 2) for node i; every row
\* is used by one edge and none is out of range.
C9_EdgeRowBijection ==
    (pc # "unbuilt" /\ net.steps >= 1) =>
        /\ \A id \in {net.alphas_normal, net.alphas_reduce} :
              DOMAIN heap[id] = 0..(RowCount(net.steps) - 1)
        /\ net.steps = 4 => Cardinality(DOMAIN heap[net.alphas_normal]) = 14
        /\ {EdgeRow(e[1], e[2]) : e \in Edges(net.steps)} = 0..(RowCount(net.steps) - 1)
        /\ Cardinality(Edges(net.steps)) = RowCount(net.steps)
        /\ \A x \in 1..Len(net.cells) :
              /\ Len(net.cells[x].ops) = RowCount(net.steps)
              /\ \A e \in Edges(net.steps) : net.cells[x].ops[EdgeRow(e[1], e[2]) + 1].edge = e
        /\ (pc = "forward" /\ fwd.k >= 1) => UsesByRow(net.cells[fwd.k], fwd.last)
        /\ (ret.op = "forward" /\ ret.at < net.layers) =>
              UsesByRow(net.cells[ret.at + 1], ret.last)
        /\ (ret.op = "forward" /\ ret.at >= net.layers /\ net.layers >= 1) =>
              UsesByRow(net.cells[net.layers], ret.last)
        /\ ret.op = "genotype" =>
              /\ WindowsByRow(ret.windows_normal, net.steps)
              /\ WindowsByRow(ret.windows_reduce, net.steps)

\* C9 witness: a cell of four nodes has run in a forward pass: 14 terms,
\* the last pairing states[4] with the op and the weight row 13, the row
\* of edge (3, 4).
C9_Witness ==
    /\ pc = "forward" /\ fwd.k >= 1
    /\ net.steps = 4
    /\ Len(fwd.last.uses) = 14
    /\ fwd.last.uses[14].node = 3 /\ fwd.last.uses[14].state = 4
    /\ fwd.last.uses[14].op = 13 /\ fwd.last.uses[14].w = 13
    /\ Cardinality(DOMAIN heap[net.alphas_normal]) = 14

\* The lowest index that attains the maximum of the row.
FirstMax(row) ==
    CHOOSE k \in DOMAIN row :
        /\ \A q \in DOMAIN row : row[q] <= row[k]
        /\ \A q \in DOMAIN row : q < k => row[q] < row[k]

\* The table an InnerCell of the network is to read.
TableOf(cell) == heap[IF cell.reduction THEN net.alphas_reduce ELSE net.alphas_normal]

\* InnerCell.forward applies to states[j] of node i the op chosen for (i, j).
InnerUsesByEdge(cell) ==
    LET run == InnerCellForward(cell, Tensor(cell.preprocess0.C_in, 0),
                   Tensor(cell.preprocess1.C_in, 0))
    IN  /\ Len(run.uses) = RowCount(cell.steps)
        /\ \A x \in 1..Len(run.uses) :
              /\ run.uses[x].op < Len(cell.ops)
              /\ cell.ops[run.uses[x].op + 1].edge = <<run.uses[x].node, run.uses[x].state>>
        /\ {<<run.uses[x].node, run.uses[x].state>> : x \in 1..Len(run.uses)}
              = Edges(cell.steps)

\* C10: in every cell of the size-measuring network every edge (i, j) has
\* exactly one operation, the one at the lowest index attaining the maximum
\* of row i*(i+3)/2 + j over all operations, "none" included, of the reduce
\* table in a reduction cell and of the normal table otherwise; a cell has
\* steps*(steps+3)/2 operations, and its forward applies to states[j] the
\* operation chosen for edge (i, j).
C10_SizeModelOps ==
    sizeModel.live =>
        /\ Len(sizeModel.cells) = net.layers
        /\ \A x \in 1..Len(sizeModel.cells) :
              LET cell == sizeModel.cells[x]
              IN  /\ cell.reduction <=> (x - 1) \in {net.layers \div 3, (2 * net.layers) \div 3}
                  /\ cell.steps = net.steps
                  /\ Len(cell.ops) = RowCount(net.steps)
                  /\ \A e \in Edges(net.steps) :
                        LET op == cell.ops[EdgeRow(e[1], e[2]) + 1]
                        IN  /\ op.edge = e
                            /\ op.name = OPS_keys[FirstMax(TableOf(cell)[EdgeRow(e[1], e[2])]) + 1]
                  /\ InnerUsesByEdge(cell)

\* C10 witness: a size-measuring network with a normal and a reduction cell
\* where an edge's row has its maximum twice, first at "none", which is the
\* choice, and where an edge gets different operations in the two cells.
C10_Witness ==
    /\ sizeModel.live /\ net.layers = 3 /\ net.steps >= 2
    /\ ~sizeModel.cells[1].reduction /\ sizeModel.cells[2].reduction
    /\ \E e \in Edges(net.steps) :
          LET row == heap[net.alphas_normal][EdgeRow(e[1], e[2])]
          IN  /\ row[0] = row[FirstMax(row)]
              /\ \E k \in DOMAIN row : k > 0 /\ row[k] = row[0]
              /\ sizeModel.cells[1].ops[EdgeRow(e[1], e[2]) + 1].name = "none"
    /\ \E e \in Edges(net.steps) :
          sizeModel.cells[1].ops[EdgeRow(e[1], e[2]) + 1].name
              # sizeModel.cells[2].ops[EdgeRow(e[1], e[2]) + 1].name

\* The record of a cell's forward pass combines tensors of one resolution
\* only: the two preprocessed inputs, the operands summed at each node, and
\* the states concatenated into the output.
ResolutionsAgree(rec) ==
    /\ rec.states[1].ok /\ rec.states[2].ok
    /\ rec.states[1].res = rec.states[2].res
    /\ \A x, y \in 1..Len(rec.uses) :
          rec.uses[x].node = rec.uses[y].node =>
              /\ rec.uses[x].operand.ok
              /\ rec.uses[x].operand.res = rec.uses[y].operand.res
    /\ \A x, y \in 1..Len(rec.cat) :
          rec.states[rec.cat[x] + 1].res = rec.states[rec.cat[y] + 1].res
    /\ rec.out.ok

\* C11: in a forward pass of a network with layers >= 1, steps >= 1 and
\* 1 <= multiplier <= steps+2, resolution counted in halvings, every cell
\* combines tensors of equal resolution only: its two preprocessed inputs,
\* the operands summed at each intermediate node, and the states
\* concatenated into its output, also with adjacent reduction positions or
\* a reduction at layer 0.
C11_ResolutionConsistent ==
    (pc # "unbuilt" /\ ValidConfig(net)) =>
        /\ (pc = "forward" /\ fwd.k >= 1) => ResolutionsAgree(fwd.last)
        /\ (ret.op = "forward" /\ ret.last.states # <<>>) => ResolutionsAgree(ret.last)
        /\ ret.op = "forward" => ret.ok
====
